---------------------------- MODULE Spec2Model ----------------------------
(***************************************************************************)
(* The address book of goit-pycore-hw-06 / goit-pycore-hw-07.              *)
(*                                                                         *)
(* Two variants of the program exist in the repository:                    *)
(*   hw06  src/python-hw-06/goit-pycore-hw-06/task1.py                     *)
(*   hw07  src/python-hw-07/goit-pycore-hw-07/task1.py                     *)
(* The variable `variant` says which of the two is running.                *)
(*                                                                         *)
(* A Python str is a sequence of one-character strings; a character that   *)
(* is not ASCII is written by its Unicode name.  Contact names are never   *)
(* inspected character by character and are plain strings.                *)
(***************************************************************************)
EXTENDS Integers, Sequences, FiniteSets, TLC

VARIABLES
    variant,         \* "hw06" or "hw07": which task1.py runs
    book,            \* AddressBook.data: insertion-ordered <<[key, rec]>>
    pre,             \* AddressBook.data as it was when the last call began
    result,          \* the last call: its arguments and how it ended
    today,           \* datetime.today().date() as the last call read it, NoDay if it read none
    users_to_greet   \* the dict the last call returned, EmptyMap if it returned none

vars == <<variant, book, pre, result, today, users_to_greet>>

---------------------------------------------------------------------------
(* Bounds of the model.                                                    *)

\* most phones a record holds in the record-level specification
MaxPhones == 2
\* most phones a record holds in the book-level specification
MaxBookPhones == 1
\* how far from PhoneLen the lengths of the raw phone inputs range
LenSlack == 1

---------------------------------------------------------------------------
(* Characters and str.isdigit().                                           *)

AsciiDigits == {"0", "1", "2", "3", "4", "5", "6", "7", "8", "9"}

\* Characters outside 0-9 for which Python's str.isdigit() is True
\* (Numeric_Type=Digit or Decimal): U+00B2 and U+0663.
OtherDigits == {"SUPERSCRIPT TWO", "ARABIC-INDIC DIGIT THREE"}

\* Characters for which str.isdigit() is False (U+00BD is Numeric, not Digit).
NonDigits == {"a", "-", " ", "+", "VULGAR FRACTION ONE HALF"}

Chars == AsciiDigits \cup OtherDigits \cup NonDigits

\* str.isdigit() of one character
CharIsDigit(c) == c \in AsciiDigits \cup OtherDigits

\* str.isdigit(): all characters are digits and there is at least one
IsDigit(s) == Len(s) > 0 /\ \A i \in 1..Len(s) : CharIsDigit(s[i])

\* Field.__init__: self.value = value
FieldInit(value) == value

\* the length Phone demands
PhoneLen == 10

\* hw06 Phone.validate (every value here is a str, so isinstance holds)
Validate(phone_number) == IsDigit(phone_number) /\ Len(phone_number) = PhoneLen

\* hw07 Phone.__init__'s condition
Hw07PhoneOk(value) == Len(value) = PhoneLen /\ IsDigit(value)

InvalidPhoneMsg(v) ==
    IF v = "hw06"
    THEN "Nepravylnyi format telefonu. Nomer povynen skladatysia rivno z 10 tsyfr."
    ELSE "Invalid phone format. Must be 10 digits."

\* Phone(value) does not raise
PhoneAccepts(v, value) == IF v = "hw06" THEN Validate(value) ELSE Hw07PhoneOk(value)

---------------------------------------------------------------------------
(* How a call ends.                                                        *)

NoStr == <<>>

Outcome(op, name, old, new, n, exc, msg, printed, ret) ==
    [op |-> op, name |-> name, old |-> old, new |-> new, n |-> n,
     exc |-> exc, msg |-> msg, printed |-> printed, ret |-> ret]

\* the call returned normally
Returned(op, name, old, new, printed) ==
    Outcome(op, name, old, new, 0, "none", "", printed, "None")

\* the call raised exc(msg)
Raised(op, name, old, new, exc, msg) ==
    Outcome(op, name, old, new, 0, exc, msg, "", "")

NoCall == Returned("init", "", NoStr, NoStr, "")

---------------------------------------------------------------------------
(* Record.                                                                 *)

NoBirthday == [set |-> FALSE, y |-> 0, m |-> 0, d |-> 0]

\* Record.__init__: any name is taken, Name adds no validation
NewRecord(name) == [name |-> name, phones |-> <<>>, birthday |-> NoBirthday]

\* Record.find_phone as an index: the first i with phones[i].value = phone_number, 0 for None
RECURSIVE FindPhoneFrom(_, _, _)
FindPhoneFrom(phones, phone_number, i) ==
    IF i > Len(phones) THEN 0
    ELSE IF phones[i] = phone_number THEN i
    ELSE FindPhoneFrom(phones, phone_number, i + 1)

FindPhone(phones, phone_number) == FindPhoneFrom(phones, phone_number, 1)

\* as ListRemoveAt, but every phone equal to the one at i goes
ListRemoveEqual(phones, i) == SelectSeq(phones, LAMBDA x : x # phones[i])

\* list.remove(obj) of the object found at index i
ListRemoveAt(phones, i) ==
    [j \in 1..(Len(phones) - 1) |-> IF j < i THEN phones[j] ELSE phones[j + 1]]

\* as ListSetAt, but every phone equal to the one at i is replaced
ListSetEqual(phones, i, new) == [j \in 1..Len(phones) |-> IF phones[j] = phones[i] THEN new ELSE phones[j]]

\* self.phones[i] = new
ListSetAt(phones, i, new) == [phones EXCEPT ![i] = new]

---------------------------------------------------------------------------
(* AddressBook: UserDict.data, a dict in insertion order.                  *)

Keys(d) == {d[i].key : i \in 1..Len(d)}

Has(d, k) == k \in Keys(d)

IndexOf(d, k) == CHOOSE i \in 1..Len(d) : d[i].key = k

\* as DictSet, but the entry is always appended, as to a list
DictAppend(d, k, rec) == Append(d, [key |-> k, rec |-> rec])

\* self.data[key] = rec: a present key keeps its place, a new one goes last
DictSet(d, k, rec) ==
    IF Has(d, k)
    THEN [d EXCEPT ![IndexOf(d, k)] = [key |-> k, rec |-> rec]]
    ELSE Append(d, [key |-> k, rec |-> rec])

\* as DictDel, but the test is the wrong way round: only k is kept
DictDelOthers(d, k) == SelectSeq(d, LAMBDA e : e.key = k)

\* del self.data[name]
DictDel(d, k) == SelectSeq(d, LAMBDA e : e.key # k)

Absent == [name |-> "", phones |-> <<>>, birthday |-> NoBirthday, none |-> TRUE]

Present(rec) == [name |-> rec.name, phones |-> rec.phones,
                 birthday |-> rec.birthday, none |-> FALSE]

\* AddressBook.find: self.data.get(name), Absent for None
Find(d, name) == IF Has(d, name) THEN Present(d[IndexOf(d, name)].rec) ELSE Absent

\* the record a caller holds after record = book.find(name)
Rec(d, name) == d[IndexOf(d, name)].rec

\* a mutation of the record object stored under name
SetRec(d, name, rec) == [d EXCEPT ![IndexOf(d, name)].rec = rec]

---------------------------------------------------------------------------
(* Record methods: each gives the record afterwards and how the call ended.*)

Done(rec, printed) == [rec |-> rec, exc |-> "none", msg |-> "", printed |-> printed]

Fail(rec, exc, msg) == [rec |-> rec, exc |-> exc, msg |-> msg, printed |-> ""]

\* hw06 Record.add_phone
Hw06AddPhone(rec, phone_number) ==
    IF ~Validate(phone_number)
    THEN Fail(rec, "ValueError", InvalidPhoneMsg("hw06"))
    ELSE Done([rec EXCEPT !.phones = Append(@, phone_number)], "Dodano telefon")

\* hw07 Record.add_phone
Hw07AddPhone(rec, phone_number) ==
    IF ~Hw07PhoneOk(phone_number)
    THEN Fail(rec, "ValueError", InvalidPhoneMsg("hw07"))
    ELSE Done([rec EXCEPT !.phones = Append(@, phone_number)], "")

\* hw06 Record.remove_phone: a missing phone is printed, nothing is raised
Hw06RemovePhone(rec, phone_number) ==
    LET i == FindPhone(rec.phones, phone_number) IN
    IF i # 0
    THEN Done([rec EXCEPT !.phones = ListRemoveAt(@, i)], "Vydaleno telefon")
    ELSE Done(rec, "Telefon ne znaideno")

\* hw07 Record.remove_phone
Hw07RemovePhone(rec, phone_number) ==
    LET i == FindPhone(rec.phones, phone_number) IN
    IF i # 0
    THEN Done([rec EXCEPT !.phones = ListRemoveAt(@, i)], "")
    ELSE Fail(rec, "ValueError", "Phone not found.")

\* hw06 Record.edit_phone: Phone(new) first, inside try; every ValueError is printed
Hw06EditPhone(rec, old, new) ==
    IF ~Validate(new)
    THEN Done(rec, "Pomylka redahuvannia")
    ELSE LET i == FindPhone(rec.phones, old) IN
         IF i # 0
         THEN Done([rec EXCEPT !.phones = ListSetAt(@, i, new)], "Telefon zmineno")
         ELSE Done(rec, "Telefon ne znaideno")

\* hw07 Record.edit_phone: find_phone(old) first, then Phone(new), then the loop
Hw07EditPhone(rec, old, new) ==
    IF FindPhone(rec.phones, old) = 0
    THEN Fail(rec, "ValueError", "Old phone number not found.")
    ELSE IF ~Hw07PhoneOk(new)
    THEN Fail(rec, "ValueError", InvalidPhoneMsg("hw07"))
    ELSE Done([rec EXCEPT !.phones = ListSetAt(@, FindPhone(@, old), new)], "")

---------------------------------------------------------------------------
(* Dates: datetime.date as Python computes it.                             *)

IsLeap(y) == y % 4 = 0 /\ (y % 100 # 0 \/ y % 400 = 0)

DaysInMonth(y, m) ==
    IF m = 2 THEN (IF IsLeap(y) THEN 29 ELSE 28)
    ELSE IF m \in {4, 6, 9, 11} THEN 30 ELSE 31

ValidDate(y, m, d) == m \in 1..12 /\ d >= 1 /\ d <= DaysInMonth(y, m)

DaysBeforeYear(y) ==
    (y - 1) * 365 + ((y - 1) \div 4) - ((y - 1) \div 100) + ((y - 1) \div 400)

DaysBeforeMonth(y, m) ==
    <<0, 31, 59, 90, 120, 151, 181, 212, 243, 273, 304, 334>>[m]
        + (IF m > 2 /\ IsLeap(y) THEN 1 ELSE 0)

\* date.toordinal()
ToOrdinal(dt) == DaysBeforeYear(dt.y) + DaysBeforeMonth(dt.y, dt.m) + dt.d

\* date.weekday(): Monday is 0, Sunday is 6
Weekday(dt) == (ToOrdinal(dt) + 6) % 7

\* date.strftime('%A') in the C locale, which the program never changes
DayName(w) ==
    <<"Monday", "Tuesday", "Wednesday", "Thursday", "Friday", "Saturday", "Sunday">>[w + 1]

Date(y, m, d) == [y |-> y, m |-> m, d |-> d]

\* date.replace(year=y): ok is FALSE where Python raises
\* ValueError("day is out of range for month")
Replace(dt, y) == [ok |-> ValidDate(y, dt.m, dt.d), y |-> y, m |-> dt.m, d |-> dt.d]

\* Birthday.__init__: strptime(value, '%d.%m.%Y').date(); raw holds the three
\* numbers strptime reads, and a date that does not exist is a ValueError
BirthdayOk(raw) == ValidDate(raw.y, raw.m, raw.d)

\* hw07 Record.add_birthday
Hw07AddBirthday(rec, raw) ==
    IF ~BirthdayOk(raw)
    THEN Fail(rec, "ValueError", "Invalid date format. Use DD.MM.YYYY")
    ELSE Done([rec EXCEPT !.birthday = [set |-> TRUE, y |-> raw.y, m |-> raw.m, d |-> raw.d]], "")

---------------------------------------------------------------------------
(* AddressBook.get_upcoming_birthdays.                                     *)

EmptyMap == [k \in {} |-> <<>>]

\* bday.replace(year=today.year), and bday.replace(year=today.year + 1) when
\* that is before today; ok is FALSE where either replace raises
NextOccurrence(bday, t) ==
    LET this == Replace(bday, t.y) IN
    IF ~this.ok THEN this
    ELSE IF ToOrdinal(this) < ToOrdinal(t) THEN Replace(bday, t.y + 1)
    ELSE this

\* users_to_greet[congr_day_str].append(name), the key made on first use
Greet(map, day, name) ==
    IF day \in DOMAIN map
    THEN [map EXCEPT ![day] = Append(@, name)]
    ELSE [k \in DOMAIN map \cup {day} |-> IF k = day THEN <<name>> ELSE map[k]]

\* one pass of the for loop body over record rec
GreetRecord(map, rec, t) ==
    LET next       == NextOccurrence(rec.birthday, t)
        delta_days == ToOrdinal(next) - ToOrdinal(t)
        day_of_week == Weekday(next)
        congr_day_str == IF day_of_week = 5 \/ day_of_week = 6
                         THEN "Monday" ELSE DayName(day_of_week)
    IN  IF 0 <= delta_days /\ delta_days < 7
        THEN Greet(map, congr_day_str, rec.name)
        ELSE map

\* the loop over self.data.values() from entry i on; the first replace that
\* raises ends the call with that ValueError
RECURSIVE ScanFrom(_, _, _, _)
ScanFrom(d, i, t, map) ==
    IF i > Len(d) THEN [exc |-> "none", msg |-> "", map |-> map]
    ELSE IF ~d[i].rec.birthday.set THEN ScanFrom(d, i + 1, t, map)
    ELSE IF ~NextOccurrence(d[i].rec.birthday, t).ok
    THEN [exc |-> "ValueError", msg |-> "day is out of range for month", map |-> EmptyMap]
    ELSE ScanFrom(d, i + 1, t, GreetRecord(map, d[i].rec, t))

UpcomingBirthdays(d, t) == ScanFrom(d, 1, t, EmptyMap)

---------------------------------------------------------------------------
(* Command handlers of hw07.                                               *)

\* input_error: the text returned for an exception raised by the handler
InputError(exc, msg) ==
    IF exc = "ValueError" THEN msg
    ELSE IF exc = "KeyError" THEN "Contact not found."
    ELSE IF exc = "IndexError" THEN "Invalid command format. Please provide necessary arguments."
    ELSE IF exc = "AttributeError" THEN "Contact has no birthday saved."
    ELSE "An unexpected error occurred"

\* as AddContactBody, but the phone is validated before the record is stored
AddContactValidatingFirst(d, n, name, phone) ==
    IF n < 2 THEN [book |-> d, exc |-> "IndexError", msg |-> "Invalid format. Usage: add [name] [phone]"]
    ELSE IF n > 2 THEN [book |-> d, exc |-> "ValueError", msg |-> "too many values to unpack (expected 2)"]
    ELSE IF ~Hw07PhoneOk(phone) THEN [book |-> d, exc |-> "ValueError", msg |-> InvalidPhoneMsg("hw07")]
    ELSE LET found == Has(d, name)
             rec == IF found THEN Rec(d, name) ELSE NewRecord(name)
         IN  [book |-> DictSet(d, name, [rec EXCEPT !.phones = Append(@, phone)]), exc |-> "none",
              msg |-> IF found THEN "Contact updated." ELSE "Contact added."]

\* add_contact's body for n arguments, the first two being name and phone:
\* the book afterwards and the exception or the message
AddContactBody(d, n, name, phone) ==
    IF n < 2 THEN [book |-> d, exc |-> "IndexError", msg |-> "Invalid format. Usage: add [name] [phone]"]
    ELSE IF n > 2 THEN [book |-> d, exc |-> "ValueError", msg |-> "too many values to unpack (expected 2)"]
    ELSE LET found == Has(d, name)
             d1 == IF found THEN d ELSE DictSet(d, name, NewRecord(name))
             r  == Hw07AddPhone(Rec(d1, name), phone)
         IN  IF r.exc # "none"
             THEN [book |-> d1, exc |-> r.exc, msg |-> r.msg]
             ELSE [book |-> SetRec(d1, name, r.rec), exc |-> "none",
                   msg |-> IF found THEN "Contact updated." ELSE "Contact added."]

---------------------------------------------------------------------------
(* The calls, as actions.                                                  *)

NoDay == [y |-> 0, m |-> 0, d |-> 0]

\* a call that reads no clock and returns no dict
NoQuery == today' = NoDay /\ users_to_greet' = EmptyMap /\ UNCHANGED variant

\* a call of a Record method on the record found under name
RecordCall(op, name, old, new, r) ==
    /\ book' = SetRec(book, name, r.rec)
    /\ pre' = book
    /\ result' = Outcome(op, name, old, new, 0, r.exc, r.msg, r.printed, IF r.exc = "none" THEN "None" ELSE "")
    /\ NoQuery

\* record = Record(name); record.add_phone(p) unless p is NoStr; book.add_record(record)
AddRecord(name, p) ==
    /\ p # NoStr => PhoneAccepts(variant, p)
    /\ LET record == IF p = NoStr THEN NewRecord(name)
                     ELSE [NewRecord(name) EXCEPT !.phones = <<p>>]
       IN  book' = DictSet(book, record.name, record)
    /\ pre' = book
    /\ result' = Returned("add_record", name, NoStr, p, IF variant = "hw06" THEN "Dodano kontakt" ELSE "")
    /\ NoQuery

\* book.delete(name)
Delete(name) ==
    /\ book' = IF Has(book, name) THEN DictDel(book, name) ELSE book
    /\ pre' = book
    /\ result' = IF Has(book, name)
                 THEN Returned("delete", name, NoStr, NoStr, IF variant = "hw06" THEN "Kontakt vydaleno" ELSE "")
                 ELSE IF variant = "hw06"
                 THEN Returned("delete", name, NoStr, NoStr, "Kontakt ne znaideno")
                 ELSE Raised("delete", name, NoStr, NoStr, "KeyError", "Contact not found.")
    /\ NoQuery

\* book.find(name).add_phone(phone_number)
AddPhone(name, phone_number, cap) ==
    /\ Has(book, name)
    /\ PhoneAccepts(variant, phone_number) => Len(Rec(book, name).phones) < cap
    /\ RecordCall("add_phone", name, NoStr, phone_number,
                  IF variant = "hw06" THEN Hw06AddPhone(Rec(book, name), phone_number)
                  ELSE Hw07AddPhone(Rec(book, name), phone_number))

\* book.find(name).remove_phone(phone_number)
RemovePhone(name, phone_number) ==
    /\ Has(book, name)
    /\ RecordCall("remove_phone", name, phone_number, NoStr,
                  IF variant = "hw06" THEN Hw06RemovePhone(Rec(book, name), phone_number)
                  ELSE Hw07RemovePhone(Rec(book, name), phone_number))

\* book.find(name).edit_phone(old, new)
EditPhone(name, old, new) ==
    /\ Has(book, name)
    /\ RecordCall("edit_phone", name, old, new,
                  IF variant = "hw06" THEN Hw06EditPhone(Rec(book, name), old, new)
                  ELSE Hw07EditPhone(Rec(book, name), old, new))

\* book.find(name).add_birthday(raw); raw travels in result as <<d, m, y>>
AddBirthday(name, raw) ==
    /\ variant = "hw07"
    /\ Has(book, name)
    /\ RecordCall("add_birthday", name, NoStr, <<raw.d, raw.m, raw.y>>,
                  Hw07AddBirthday(Rec(book, name), raw))

\* add_contact(args, book) with n arguments
AddContact(n, name, phone, cap) ==
    /\ variant = "hw07"
    /\ (n = 2 /\ Has(book, name) /\ Hw07PhoneOk(phone)) => Len(Rec(book, name).phones) < cap
    /\ \E r \in {AddContactBody(book, n, name, phone)} :
       /\ book' = r.book
       /\ result' = Outcome("add_contact", name, NoStr, phone, n, "none", "", "",
                            IF r.exc = "none" THEN r.msg ELSE InputError(r.exc, r.msg))
    /\ pre' = book
    /\ NoQuery

\* book.get_upcoming_birthdays() on a day t
GetUpcomingBirthdays(t) ==
    /\ variant = "hw07"
    /\ \E r \in {UpcomingBirthdays(book, t)} :
       /\ users_to_greet' = r.map
       /\ result' = Outcome("get_upcoming_birthdays", "", NoStr, NoStr, 0, r.exc, r.msg, "",
                            IF r.exc = "none" THEN "dict" ELSE "")
    /\ today' = t
    /\ pre' = book
    /\ UNCHANGED <<variant, book>>

\* Phone(value)
ConstructPhone(value) ==
    /\ result' = IF PhoneAccepts(variant, value)
                 THEN Outcome("Phone", "", FieldInit(value), value, 0, "none", "", "", "Phone")
                 ELSE Raised("Phone", "", NoStr, value, "ValueError", InvalidPhoneMsg(variant))
    /\ pre' = book
    /\ UNCHANGED book
    /\ NoQuery

---------------------------------------------------------------------------
(* Inputs.                                                                 *)

Dig == <<"1", "2", "3", "4", "5", "6", "7", "8", "9", "0">>

\* "1234567890" repeated to n characters
Base(n) == [i \in 1..n |-> Dig[((i - 1) % 10) + 1]]

P1 == Base(PhoneLen)
BadShort == Base(PhoneLen \div 2)
PSup == [P1 EXCEPT ![PhoneLen] = "SUPERSCRIPT TWO"]

\* raw phone arguments: the digit strings of nearly the demanded length, each
\* also with one character replaced, the all-non-ASCII digit string, and ""
RawInputs ==
    LET lens == {n \in (PhoneLen - LenSlack)..(PhoneLen + LenSlack) : n >= 1} IN
    {Base(n) : n \in lens}
        \cup UNION {{[Base(n) EXCEPT ![i] = c] : i \in 1..n, c \in Chars} : n \in lens}
        \cup {[i \in 1..PhoneLen |-> "ARABIC-INDIC DIGIT THREE"], NoStr}

Names == {"John", "Jane"}

\* the names a caller may pass to Record(name)
AnyNames == Names \cup {""}

BookPhones == {P1, PSup, BadShort}

RecordPhones == {P1, PSup, BadShort}

Raw(d, m, y) == [d |-> d, m |-> m, y |-> y]

ValidBirthdays ==
    {Raw(15, 6, 1990), Raw(1, 1, 1990), Raw(29, 2, 2000),
     Raw(31, 12, 1985), Raw(28, 2, 1991), Raw(1, 3, 1988)}

BadBirthdays == {Raw(30, 2, 1990), Raw(31, 6, 1990), Raw(29, 2, 1990), Raw(1, 13, 1990)}

TodayYears == {2023, 2024}

\* the days of the clock: around mid June, the turn of the year and the end of February
DaysOf(y) ==
    {Date(y, 6, d) : d \in 8..16} \cup {Date(y, 12, d) : d \in 24..31}
        \cup {Date(y, 1, d) : d \in 1..2} \cup {Date(y, 3, d) : d \in 1..2}
        \cup {Date(y, 2, d) : d \in 22..DaysInMonth(y, 2)}

Todays == UNION {DaysOf(y) : y \in TodayYears}

---------------------------------------------------------------------------
(* Specifications.                                                         *)

Init ==
    /\ variant \in {"hw06", "hw07"}
    /\ book = <<>>
    /\ pre = <<>>
    /\ result = NoCall
    /\ today = NoDay
    /\ users_to_greet = EmptyMap

\* the address book: records come and go
Next ==
    \/ \E name \in AnyNames, p \in {NoStr, P1} : AddRecord(name, p)
    \/ \E name \in AnyNames : Delete(name)
    \/ \E name \in AnyNames, phone \in BookPhones : AddPhone(name, phone, MaxBookPhones)
    \/ \E name \in AnyNames, phone \in BookPhones : AddContact(2, name, phone, MaxBookPhones)
    \/ \E name \in AnyNames : AddContact(1, name, NoStr, MaxBookPhones)
    \/ \E name \in AnyNames, phone \in BookPhones : AddContact(3, name, phone, MaxBookPhones)

Spec == Init /\ [][Next]_vars

\* the records of a book of two contacts: their phones and birthdays
NextRecord ==
    \/ \E name \in Names : AddRecord(name, NoStr)
    \/ \E name \in Names, phone \in RecordPhones : AddPhone(name, phone, MaxPhones)
    \/ \E name \in Names, phone \in RecordPhones : RemovePhone(name, phone)
    \/ \E name \in Names, old \in RecordPhones, new \in RecordPhones : EditPhone(name, old, new)
    \/ \E name \in Names, raw \in {Raw(15, 6, 1990), Raw(30, 2, 1990)} : AddBirthday(name, raw)

SpecRecord == Init /\ [][NextRecord]_vars

\* Phone(value) over the raw inputs
NextPhone == \E value \in RawInputs : ConstructPhone(value)

SpecPhone == Init /\ [][NextPhone]_vars

\* hw07: birthdays and the upcoming-birthdays query
NextBirthdays ==
    \/ \E name \in Names : AddRecord(name, NoStr)
    \/ \E name \in Names : Delete(name)
    \/ \E name \in Names, raw \in ValidBirthdays \cup BadBirthdays : AddBirthday(name, raw)
    \/ \E t \in Todays : GetUpcomingBirthdays(t)

InitBirthdays == Init /\ variant = "hw07"

SpecBirthdays == InitBirthdays /\ [][NextBirthdays]_vars

---------------------------------------------------------------------------
(* The vocabulary of the properties.                                       *)

\* exactly 10 characters, each one of 0-9
TenDecimalDigits(s) == Len(s) = 10 /\ \A i \in 1..Len(s) : s[i] \in AsciiDigits

\* the last call signalled the rejection of a phone number to its caller
SignalsInvalidPhone == result.exc = "ValueError" /\ result.msg = InvalidPhoneMsg(variant)

\* the last call signalled "not found" to its caller
SignalsNotFound ==
    \/ result.exc = "KeyError"
    \/ result.exc = "ValueError" /\ result.msg \in {"Phone not found.", "Old phone number not found."}

\* the least index of x in seq, 0 when x does not occur
FirstMatch(seq, x) ==
    IF \E i \in 1..Len(seq) : seq[i] = x
    THEN CHOOSE i \in 1..Len(seq) : seq[i] = x /\ \A j \in 1..(i - 1) : seq[j] # x
    ELSE 0

\* the record the last call worked on, before and after it
Before == Rec(pre, result.name)
After == Rec(book, result.name)

\* every entry but the one under result.name is as it was
OthersKept ==
    \A name \in AnyNames \ {result.name} : Find(book, name) = Find(pre, name)

---------------------------------------------------------------------------
(* C1 .. C10.                                                              *)

\* C1 (as claimed): edit_phone with a new number that is not exactly 10 decimal
\* digits signals the validation error and leaves the book as it was, whatever
\* old is.
C1_EditInvalidNewSignalsValidation ==
    (result.op = "edit_phone" /\ ~TenDecimalDigits(result.new))
        => (SignalsInvalidPhone /\ book = pre)

\* What does hold of edit_phone: a new number that Phone rejects leaves the book
\* as it was; hw07 raises the validation error when old is present and "Old
\* phone number not found." when it is not; hw06 prints the error and returns.
EditRejectedNewKeepsBook ==
    (result.op = "edit_phone" /\ ~PhoneAccepts(variant, result.new))
        => /\ book = pre
           /\ variant = "hw06" => (result.exc = "none" /\ result.printed = "Pomylka redahuvannia")
           /\ variant = "hw07" =>
                  IF FirstMatch(Before.phones, result.old) # 0
                  THEN SignalsInvalidPhone
                  ELSE result.exc = "ValueError" /\ result.msg = "Old phone number not found."

\* C2 (as claimed): Phone(value) succeeds exactly when value is 10 characters
\* all in 0-9; otherwise it raises the validation error; the stored value is
\* the input.
C2_PhoneIffTenDecimalDigits ==
    result.op = "Phone"
        => /\ (result.exc = "none") <=> TenDecimalDigits(result.new)
           /\ result.exc = "none" => result.old = result.new
           /\ result.exc # "none" => SignalsInvalidPhone

---------------------------------------------------------------------------

\* the dates with the birthday's day and month in the years from t.y on
\* (a 29 February recurs within 8 years)
Occurrences(bday, t) ==
    {Date(y, bday.m, bday.d) : y \in {z \in t.y..(t.y + 8) : ValidDate(z, bday.m, bday.d)}}

\* the next occurrence of the birthday on or after t
NextOnOrAfter(bday, t) ==
    CHOOSE o \in Occurrences(bday, t) :
        /\ ToOrdinal(o) >= ToOrdinal(t)
        /\ \A q \in Occurrences(bday, t) :
               ToOrdinal(q) >= ToOrdinal(t) => ToOrdinal(o) <= ToOrdinal(q)

\* the contact under name is to be greeted within the week from t
DueWithinWeek(d, name, t) ==
    /\ Has(d, name)
    /\ Rec(d, name).birthday.set
    /\ ToOrdinal(NextOnOrAfter(Rec(d, name).birthday, t)) - ToOrdinal(t) \in 0..6

\* the day the contact under name is greeted on
GreetingDay(d, name, t) ==
    LET w == Weekday(NextOnOrAfter(Rec(d, name).birthday, t)) IN
    IF w \in {5, 6} THEN "Monday" ELSE DayName(w)

\* the places <<day, i>> where name stands in the returned dict
Places(map, name) ==
    {p \in UNION {{<<k, i>> : i \in 1..Len(map[k])} : k \in DOMAIN map} : map[p[1]][p[2]] = name}

UpcomingIsRight ==
    /\ result.exc = "none"
    /\ DOMAIN users_to_greet \subseteq {"Monday", "Tuesday", "Wednesday", "Thursday", "Friday"}
    /\ \A k \in DOMAIN users_to_greet : users_to_greet[k] # <<>>
    /\ \A name \in Names :
           IF DueWithinWeek(book, name, today)
           THEN /\ Cardinality(Places(users_to_greet, name)) = 1
                /\ \A p \in Places(users_to_greet, name) : p[1] = GreetingDay(book, name, today)
           ELSE Places(users_to_greet, name) = {}

\* C3 (as claimed): get_upcoming_birthdays returns, for every book and day, a
\* dict holding a name exactly when its birthday next occurs 0 to 6 days ahead,
\* once, under that day's name or Monday for a weekend; keys are Monday..Friday
\* and no list is empty.
C3_UpcomingBirthdaysMapping ==
    result.op = "get_upcoming_birthdays" => UpcomingIsRight

HasLeapDay(d) ==
    \E i \in 1..Len(d) : d[i].rec.birthday.set /\ d[i].rec.birthday.m = 2 /\ d[i].rec.birthday.d = 29

\* What does hold of the query: the mapping is right whenever no stored
\* birthday is a 29 February.
UpcomingRightWithoutLeapDay ==
    (result.op = "get_upcoming_birthdays" /\ ~HasLeapDay(book)) => UpcomingIsRight

UpcomingWeekendCase ==
    /\ result.op = "get_upcoming_birthdays"
    /\ today = Date(2024, 6, 10)
    /\ "Monday" \in DOMAIN users_to_greet
    /\ Len(users_to_greet["Monday"]) = 2

\* C9 (as claimed): for every stored birthday and every day, the next
\* occurrence is computed without failing, is not before the day and is less
\* than a year after it, and the query does not raise.
C9_NextOccurrenceNeverFails ==
    result.op = "get_upcoming_birthdays"
        => /\ result.exc = "none"
           /\ \A i \in 1..Len(book) :
                  book[i].rec.birthday.set =>
                      LET next == NextOccurrence(book[i].rec.birthday, today) IN
                      /\ next.ok
                      /\ ToOrdinal(next) >= ToOrdinal(today)
                      /\ ToOrdinal(next) < ToOrdinal(Date(today.y + 1, today.m, today.d))

---------------------------------------------------------------------------

\* C4: delete(name) of a name in the book removes exactly that entry: find(name)
\* is then absent and every other name maps to the record it mapped to.
C4_DeleteRemovesExactlyThatEntry ==
    (result.op = "delete" /\ Has(pre, result.name))
        => (Find(book, result.name) = Absent /\ OthersKept)

\* a delete of one of three entries, after phones were added to another
C4_Witness ==
    /\ result.op = "delete"
    /\ Has(pre, result.name)
    /\ Len(pre) = 3
    /\ \E i \in 1..Len(book) : book[i].rec.phones # <<>>

C5_RemovedFirstOfTwo ==
    /\ result.op = "remove_phone"
    /\ Len(Before.phones) = 2
    /\ Before.phones[1] = result.old /\ Before.phones[2] = result.old
    /\ Len(After.phones) = 1

\* C6: a successful edit_phone (old present, new accepted) puts new where the
\* first old was; the length and every other position stay, later duplicates of
\* old included, and so do the record's name and birthday.
C6_EditReplacesFirstInPlace ==
    (/\ result.op = "edit_phone"
     /\ FirstMatch(Before.phones, result.old) # 0
     /\ PhoneAccepts(variant, result.new))
        => LET i == FirstMatch(Before.phones, result.old) IN
           /\ result.exc = "none"
           /\ Len(After.phones) = Len(Before.phones)
           /\ After.phones[i] = result.new
           /\ \A j \in 1..Len(Before.phones) : j # i => After.phones[j] = Before.phones[j]
           /\ After.name = Before.name
           /\ After.birthday = Before.birthday
           /\ OthersKept

\* an edit of a record with a birthday whose two phones both equalled old
C6_Witness ==
    /\ result.op = "edit_phone"
    /\ result.exc = "none"
    /\ result.old # result.new
    /\ Len(Before.phones) = 2
    /\ Before.phones[1] = result.old /\ Before.phones[2] = result.old
    /\ After.phones = <<result.new, result.old>>
    /\ Before.birthday.set

\* C7 (as claimed): Record("") raises the validation error, and no entry is
\* ever stored under the empty key.
C7_EmptyNameRejected ==
    /\ (result.op = "add_record" /\ result.name = "") => result.exc = "ValueError"
    /\ ~Has(book, "")

\* C8: keys are unique and each equals the name of its record; add_record of a
\* present name raises nothing, puts the new record in the old one's stead, and
\* the book does not grow.
C8_KeysUniqueAndAddReplaces ==
    /\ \A i, j \in 1..Len(book) : book[i].key = book[j].key => i = j
    /\ \A i \in 1..Len(book) : book[i].key = book[i].rec.name
    /\ result.op = "add_record"
           => /\ result.exc = "none"
              /\ Find(book, result.name) =
                     Present([name |-> result.name,
                              phones |-> IF result.new = NoStr THEN <<>> ELSE <<result.new>>,
                              birthday |-> NoBirthday])
              /\ Has(pre, result.name) => Len(book) = Len(pre)
              /\ OthersKept

\* a record with a phone was replaced by a new record without one
C8_Witness ==
    /\ result.op = "add_record"
    /\ Has(pre, result.name)
    /\ Before.phones # <<>>
    /\ After.phones = <<>>
    /\ Len(book) = 2

\* C10: the add handler given a name and a phone that Phone rejects returns
\* the validation text; a name that was not in the book is in it afterwards,
\* with no phones and everything else as before; a name that was in the book
\* leaves the book as it was.
C10_AddContactInsertsBeforeValidating ==
    (result.op = "add_contact" /\ result.n = 2 /\ ~PhoneAccepts(variant, result.new))
        => /\ result.ret = InvalidPhoneMsg(variant)
           /\ result.exc = "none"
           /\ IF Has(pre, result.name)
              THEN book = pre
              ELSE /\ Find(book, result.name) = Present(NewRecord(result.name))
                   /\ Len(book) = Len(pre) + 1
                   /\ OthersKept

\* the failing add of a new name beside an older contact
C10_Witness ==
    /\ result.op = "add_contact"
    /\ result.n = 2
    /\ ~PhoneAccepts(variant, result.new)
    /\ ~Has(pre, result.name)
    /\ Len(pre) = 1
    /\ Has(book, result.name)
    /\ After.phones = <<>>

=============================================================================
